---- MODULE Spec2Model ----
(***************************************************************************)
(* cloudflare_exporter: the point-of-presence registry (pops.go), the      *)
(* status collector (status_exporter.go), the zone collector               *)
(* (zone_exporter.go) and the process that registers them                  *)
(* (cloudflare_exporter.go).                                               *)
(*                                                                         *)
(* Strings are sequences of tokens: a token is a maximal run of characters *)
(* free of the separators the code looks for, and every separator is a     *)
(* token of its own ("SJC-PIG" is <<"SJC", "-", "PIG">>, "" is <<>>).      *)
(***************************************************************************)
EXTENDS Integers, Sequences, FiniteSets, Bags, TLC

VARIABLES
  pops,         \* pops.go: the listing served at /pops.json
  popsByIDMap,  \* pops.go: code -> entry
  lastCall,     \* the last call of getPop or addPop, with its result
  proc,         \* "starting", "serving" or "exited"
  zones,        \* the zones api.ListZones gave main
  colos,        \* StatusExporter.colos
  scrape,       \* "idle" or "running": a Gather of the registry in progress
  statusPc,     \* where StatusExporter.Collect stands in this scrape
  statusRes,    \* what summaryRequest returned in this scrape
  zonePc,       \* zone id -> where ZoneExporter.Collect stands
  dashRes,      \* zone id -> what the dashboard query returned
  dnsRes,       \* zone id -> what the DNS query returned
  ch,           \* the metrics sent on ch in this scrape, as a bag
  listed,       \* what api.ListZones returned to main
  inflight      \* request -> where its call of StatusExporter.Collect stands

regVars == <<pops, popsByIDMap>>
procVars == <<proc, zones, colos, scrape, statusPc, statusRes, zonePc,
              dashRes, dnsRes, ch, listed, inflight>>
vars == <<pops, popsByIDMap, lastCall, proc, zones, colos, scrape, statusPc,
          statusRes, zonePc, dashRes, dnsRes, ch, listed, inflight>>

----------------------------------------------------------------------------
(* Bounds *)

MaxCodeLen == 3
MaxLearn == 2
MaxZones == 2
MaxPrice == 201
MaxInFlight == 2

----------------------------------------------------------------------------
(* Strings *)

Unknown == <<"Unknown">>
AKL == <<"AKL">>
AMS == <<"AMS">>
SJC == <<"SJC">>
SJC_PIG == <<"SJC", "-", "PIG">>

\* every string over the tokens of Toks of at most n tokens
RECURSIVE StringsUpTo(_, _)
StringsUpTo(Toks, n) ==
  IF n = 0 THEN {<<>>}
  ELSE LET shorter == StringsUpTo(Toks, n - 1)
       IN  shorter \cup {Append(s, t) : s \in shorter, t \in Toks}

\* the tokens of the display names, in the byte order of the strings they
\* stand for
NameOrder == <<"Amsterdam, Netherlands", "Auckland, New Zealand",
               "London, United Kingdom",
               "San Jose (Alternate), CA, United States",
               "San Jose, CA, United States", "Unknown", "Zurich, Switzerland">>

TokRank(t) == CHOOSE i \in 1..Len(NameOrder) : NameOrder[i] = t

\* Go's < on strings: the first differing position decides, a proper prefix
\* is smaller
StrLess(a, b) ==
  \E i \in 1..Len(b) :
    /\ \A j \in 1..(i - 1) : j <= Len(a) /\ a[j] = b[j]
    /\ \/ i = Len(a) + 1
       \/ i <= Len(a) /\ TokRank(a[i]) < TokRank(b[i])

\* a split that keeps everything before the last "-"
SplitLast(s) ==
  LET seps == {i \in 1..Len(s) : s[i] = "-"}
      cut  == IF seps = {} THEN Len(s) + 1
              ELSE CHOOSE i \in seps : \A j \in seps : i >= j
  IN  SubSeq(s, 1, cut - 1)

\* strings.Split(s, "-")[0]: the part of s before its first "-"
SplitFirst(s) ==
  LET seps == {i \in 1..Len(s) : s[i] = "-"}
      cut  == IF seps = {} THEN Len(s) + 1
              ELSE CHOOSE i \in seps : \A j \in seps : i <= j
  IN  SubSeq(s, 1, cut - 1)

----------------------------------------------------------------------------
(* pops.go *)

\* an excerpt of the embedded table, in the table's order (by code)
popsJSON == <<
  [Name |-> <<"Auckland, New Zealand">>, Code |-> AKL,
   Region |-> <<"Oceania">>, Source |-> ""],
  [Name |-> <<"Amsterdam, Netherlands">>, Code |-> AMS,
   Region |-> <<"Europe">>, Source |-> ""],
  [Name |-> <<"San Jose, CA, United States">>, Code |-> SJC,
   Region |-> <<"North America">>, Source |-> ""],
  [Name |-> <<"San Jose (Alternate), CA, United States">>, Code |-> SJC_PIG,
   Region |-> <<"North America">>, Source |-> ""] >>

Less(a, i, j) == StrLess(a[i].Name, a[j].Name)

\* the orders sort.Sort(byName(a)) can leave a in: sort.Sort is not stable,
\* so entries of equal name may end in either order
RECURSIVE SortedOrders(_, _)
SortedOrders(a, idx) ==
  IF idx = {} THEN {<<>>}
  ELSE UNION { {<<a[i]>> \o t : t \in SortedOrders(a, idx \ {i})} :
               i \in {k \in idx : \A l \in idx : ~Less(a, l, k)} }

Sort(a) == SortedOrders(a, 1..Len(a))

initPopsList == [i \in 1..Len(popsJSON) |-> [popsJSON[i] EXCEPT !.Source = "built-in"]]

initPopsMap ==
  LET codes == {initPopsList[i].Code : i \in 1..Len(initPopsList)}
      last(c) == CHOOSE i \in 1..Len(initPopsList) :
                   /\ initPopsList[i].Code = c
                   /\ \A j \in 1..Len(initPopsList) :
                        initPopsList[j].Code = c => j <= i
  IN  [c \in codes |-> initPopsList[last(c)]]

\* getPop without the retry on the stripped code
getPopNoRetry(popID) ==
  IF popID \in DOMAIN popsByIDMap THEN popsByIDMap[popID]
  ELSE LET stem == SplitFirst(popID)
       IN  [Name |-> Unknown,
            Code |-> IF stem = <<>> THEN Unknown ELSE stem,
            Region |-> Unknown,
            Source |-> "fallback"]

\* getPop trying the stripped code before the exact one
getPopStemFirst(popID) ==
  LET stem == SplitFirst(popID)
  IN  IF stem \in DOMAIN popsByIDMap THEN popsByIDMap[stem]
      ELSE IF popID \in DOMAIN popsByIDMap THEN popsByIDMap[popID]
      ELSE [Name |-> Unknown,
            Code |-> IF stem = <<>> THEN Unknown ELSE stem,
            Region |-> Unknown,
            Source |-> "fallback"]

\* getPop without the "Unknown" code for an empty stripped code
getPopEmptyCode(popID) ==
  IF popID \in DOMAIN popsByIDMap THEN popsByIDMap[popID]
  ELSE LET stem == SplitFirst(popID)
       IN  IF stem \in DOMAIN popsByIDMap THEN popsByIDMap[stem]
           ELSE [Name |-> Unknown,
                 Code |-> stem,
                 Region |-> Unknown,
                 Source |-> "fallback"]

getPop(popID) ==
  IF popID \in DOMAIN popsByIDMap THEN popsByIDMap[popID]
  ELSE LET stem == SplitFirst(popID)
       IN  IF stem \in DOMAIN popsByIDMap THEN popsByIDMap[stem]
           ELSE [Name |-> Unknown,
                 Code |-> IF stem = <<>> THEN Unknown ELSE stem,
                 Region |-> Unknown,
                 Source |-> "fallback"]

\* addPop without the presence check
addPopOverwrite(newP) ==
  LET p == [newP EXCEPT !.Source = "external"]
  IN  /\ pops' \in Sort(Append(pops, p))
      /\ popsByIDMap' = [c \in DOMAIN popsByIDMap \cup {p.Code} |->
                           IF c = p.Code THEN p ELSE popsByIDMap[c]]

\* addPop without the sort
addPopNoSort(newP) ==
  IF newP.Code \in DOMAIN popsByIDMap
  THEN UNCHANGED <<pops, popsByIDMap>>
  ELSE LET p == [newP EXCEPT !.Source = "external"]
       IN  /\ pops' = Append(pops, p)
           /\ popsByIDMap' = [c \in DOMAIN popsByIDMap \cup {p.Code} |->
                                IF c = p.Code THEN p ELSE popsByIDMap[c]]

\* addPop without the insertion into the lookup map
addPopListOnly(newP) ==
  IF newP.Code \in DOMAIN popsByIDMap
  THEN UNCHANGED <<pops, popsByIDMap>>
  ELSE LET p == [newP EXCEPT !.Source = "external"]
       IN  /\ pops' \in Sort(Append(pops, p))
           /\ UNCHANGED popsByIDMap

addPop(newP) ==
  IF newP.Code \in DOMAIN popsByIDMap
  THEN UNCHANGED <<pops, popsByIDMap>>
  ELSE LET p == [newP EXCEPT !.Source = "external"]
       IN  /\ pops' \in Sort(Append(pops, p))
           /\ popsByIDMap' = [c \in DOMAIN popsByIDMap \cup {p.Code} |->
                                IF c = p.Code THEN p ELSE popsByIDMap[c]]

----------------------------------------------------------------------------
(* Callers of the registry *)

CodeTokens == {"SJC", "PIG", "-"}
CodeInputs == StringsUpTo(CodeTokens, MaxCodeLen)

LearnCodes == {<<>>, <<"PIG">>, <<"PIG", "-", "SJC">>, SJC, <<"BER">>}
LearnNames == {<<"London, United Kingdom">>, <<"Amsterdam, Netherlands">>,
               <<"Zurich, Switzerland">>}
LearnRegions == {<<"Europe">>}
LearnInputs == [Name : LearnNames, Code : LearnCodes, Region : LearnRegions,
                Source : {"", "built-in"}]

NoCall == [op |-> "none"]

InitPops ==
  /\ pops = initPopsList
  /\ popsByIDMap = initPopsMap
  /\ lastCall = NoCall
  /\ proc = "starting"
  /\ zones = {}
  /\ colos = <<>>
  /\ scrape = "idle"
  /\ statusPc = "idle"
  /\ statusRes = [st |-> "none"]
  /\ zonePc = <<>>
  /\ dashRes = <<>>
  /\ dnsRes = <<>>
  /\ ch = EmptyBag
  /\ listed = [st |-> "none"]
  /\ inflight = [h \in 1..MaxInFlight |-> [pc |-> "idle"]]

\* a getPop call that keeps the fallback entry it synthesized in the registry
GetPopCallCaching ==
  \E c \in CodeInputs :
    LET r == getPop(c)
    IN  /\ lastCall' = [op |-> "getPop", arg |-> c, res |-> r]
        /\ IF r.Source = "fallback" /\ r.Code \notin DOMAIN popsByIDMap
           THEN /\ pops' = Append(pops, r)
                /\ popsByIDMap' = [k \in DOMAIN popsByIDMap \cup {r.Code} |->
                                     IF k = r.Code THEN r ELSE popsByIDMap[k]]
           ELSE UNCHANGED <<pops, popsByIDMap>>
        /\ UNCHANGED procVars

GetPopCall ==
  \E c \in CodeInputs :
    /\ lastCall' = [op |-> "getPop", arg |-> c, res |-> getPop(c)]
    /\ UNCHANGED <<pops, popsByIDMap>>
    /\ UNCHANGED procVars

AddPopCall ==
  \E p \in LearnInputs :
    /\ Len(pops) < Len(popsJSON) + MaxLearn \/ p.Code \in DOMAIN popsByIDMap
    /\ addPop(p)
    /\ lastCall' = [op |-> "addPop", arg |-> p,
                    hit |-> p.Code \in DOMAIN popsByIDMap]
    /\ UNCHANGED procVars

NextPops == GetPopCall \/ AddPopCall

SpecPops == InitPops /\ [][NextPops]_vars

----------------------------------------------------------------------------
(* zone_exporter.go: NewZoneExporter *)

namespace == "cloudflare"

dashboardMetricsLabels(plan) ==
  IF plan = "enterprise" THEN <<"pop_id", "pop_name", "pop_region">> ELSE <<>>

dashboardMetricsNamespace(plan) ==
  IF plan = "enterprise" THEN "cloudflare_pop" ELSE namespace

dashboardMetricsHelpSuffix(plan) ==
  IF plan = "enterprise" THEN "(broken out by point of presence (PoP))" ELSE ""

\* dnsDimensions asking a Pro zone for the location first
dnsDimensionsColoFirst(plan) ==
  IF plan \in {"enterprise", "business"}
  THEN <<"queryName", "responseCode", "origin", "tcp", "ipVersion",
         "responseCached", "queryType", "coloName">>
  ELSE IF plan = "pro"
  THEN <<"coloName", "queryName", "responseCode", "origin", "tcp", "ipVersion">>
  ELSE <<"queryName", "responseCode", "origin", "tcp", "ipVersion">>

\* dnsDimensions without responseCached
dnsDimensionsNoCached(plan) ==
  IF plan \in {"enterprise", "business"}
  THEN <<"queryName", "responseCode", "origin", "tcp", "ipVersion",
         "queryType", "coloName">>
  ELSE IF plan = "pro"
  THEN <<"queryName", "responseCode", "origin", "tcp", "ipVersion", "coloName">>
  ELSE <<"queryName", "responseCode", "origin", "tcp", "ipVersion">>

dnsDimensions(plan) ==
  IF plan \in {"enterprise", "business"}
  THEN <<"queryName", "responseCode", "origin", "tcp", "ipVersion",
         "responseCached", "queryType", "coloName">>
  ELSE IF plan = "pro"
  THEN <<"queryName", "responseCode", "origin", "tcp", "ipVersion", "coloName">>
  ELSE <<"queryName", "responseCode", "origin", "tcp", "ipVersion">>

dnsMetricsLabels(plan) ==
  IF plan \in {"enterprise", "business"}
  THEN <<"query_name", "response_code", "origin", "tcp", "ip_version",
         "response_cached", "query_type", "pop_id", "pop_name", "pop_region">>
  ELSE IF plan = "pro"
  THEN <<"query_name", "response_code", "origin", "tcp", "ip_version",
         "pop_id", "pop_name", "pop_region">>
  ELSE <<"query_name", "response_code", "origin", "tcp", "ip_version">>

dnsMetricsNamespace(plan) ==
  IF plan \in {"enterprise", "business", "pro"} THEN "cloudflare_pop"
  ELSE namespace

dnsMetricsHelpSuffix(plan) ==
  IF plan \in {"enterprise", "business", "pro"}
  THEN "(broken out by point of presence (PoP))" ELSE ""

\* the dashboard descriptors without a category label: field |-> <<subsystem, name>>
ScalarDescs ==
  [allRequests          |-> <<"requests", "total">>,
   cachedRequests       |-> <<"requests", "cached">>,
   uncachedRequests     |-> <<"requests", "uncached">>,
   encryptedRequests    |-> <<"requests", "encrypted">>,
   unencryptedRequests  |-> <<"requests", "unencrypted">>,
   totalBandwidth       |-> <<"bandwidth", "total_bytes">>,
   cachedBandwidth      |-> <<"bandwidth", "cached_bytes">>,
   uncachedBandwidth    |-> <<"bandwidth", "uncached_bytes">>,
   encryptedBandwidth   |-> <<"bandwidth", "encrypted_bytes">>,
   unencryptedBandwidth |-> <<"bandwidth", "unencrypted_bytes">>,
   allThreats           |-> <<"threats", "total">>,
   allPageviews         |-> <<"pageviews", "total">>,
   uniqueIPAddresses    |-> <<"unique_ip_addresses", "total">>]

\* the dashboard descriptors with one: field |-> <<subsystem, name, label>>
MapDescs ==
  [byStatusRequests        |-> <<"requests", "by_status", "status_code">>,
   byContentTypeRequests   |-> <<"requests", "by_content_type", "content_type">>,
   byCountryRequests       |-> <<"requests", "by_country", "country_code">>,
   byIPClassRequests       |-> <<"requests", "by_ip_class", "ip_class">>,
   byContentTypeBandwidth  |-> <<"bandwidth", "by_content_type_bytes", "content_type">>,
   byCountryBandwidth      |-> <<"bandwidth", "by_country_bytes", "country_code">>,
   byTypeThreats           |-> <<"threats", "by_type", "type">>,
   byCountryThreats        |-> <<"threats", "by_country", "country_code">>,
   bySearchEnginePageviews |-> <<"pageviews", "by_search_engine", "search_engine">>]

DNSDescs ==
  [dnsQueryTotal      |-> <<"dns_record", "queries_total">>,
   uncachedDNSQueries |-> <<"dns_record", "uncached_queries_total">>,
   staleDNSQueries    |-> <<"dns_record", "stale_queries_total">>]

DashboardDescNames == DOMAIN ScalarDescs \cup DOMAIN MapDescs
ZoneDescNames ==
  DashboardDescNames \cup DOMAIN DNSDescs
    \cup {"componentProcessingTime", "overallProcessingTime"}

\* the descriptor NewZoneExporter builds for field d of a zone
NewDesc(zone, d) ==
  LET plan == zone.LegacyID
      const == <<zone.ID, zone.Name>>
  IN  IF d \in DOMAIN ScalarDescs
      THEN [fqName |-> <<dashboardMetricsNamespace(plan)>> \o ScalarDescs[d],
            help |-> dashboardMetricsHelpSuffix(plan),
            variableLabels |-> dashboardMetricsLabels(plan),
            constLabels |-> const]
      ELSE IF d \in DOMAIN MapDescs
      THEN [fqName |-> <<dashboardMetricsNamespace(plan)>>
                         \o SubSeq(MapDescs[d], 1, 2),
            help |-> dashboardMetricsHelpSuffix(plan),
            variableLabels |->
              Append(dashboardMetricsLabels(plan), MapDescs[d][3]),
            constLabels |-> const]
      ELSE IF d \in DOMAIN DNSDescs
      THEN [fqName |-> <<dnsMetricsNamespace(plan)>> \o DNSDescs[d],
            help |-> dnsMetricsHelpSuffix(plan),
            variableLabels |-> dnsMetricsLabels(plan),
            constLabels |-> const]
      ELSE IF d = "componentProcessingTime"
      THEN [fqName |-> <<"cloudflare_exporter_component_processing_time_seconds">>,
            help |-> "",
            variableLabels |-> <<"component">>,
            constLabels |-> const]
      ELSE [fqName |-> <<"cloudflare_exporter_processing_time_seconds">>,
            help |-> "",
            variableLabels |-> <<>>,
            constLabels |-> const]

\* registry.MustRegister panics when a descriptor has the fully-qualified
\* name of a registered one and other label names or another help string
MustRegisterPanics(zs) ==
  \E z1, z2 \in zs : \E d1, d2 \in ZoneDescNames :
    LET a == NewDesc(z1, d1)
        b == NewDesc(z2, d2)
    IN  /\ a.fqName = b.fqName
        /\ \/ a.variableLabels /= b.variableLabels
           \/ a.help /= b.help

----------------------------------------------------------------------------
(* The query parameters a plan gets *)

\* collectDashboardAnalytics: the minutes sinceTime lies before now
sinceTime(plan) ==
  IF plan = "enterprise" THEN 30
  ELSE IF plan = "business" THEN 6 * 60
  ELSE IF plan = "pro" THEN 24 * 60
  ELSE 10080

\* getDashboardAnalytics taking a plan of price 200 for one above Business
sinceTimeByPriceFrom200(price) ==
  IF price >= 200 THEN 30
  ELSE IF price = 200 THEN 6 * 60
  ELSE IF price = 20 THEN 24 * 60
  ELSE 10080

\* the ZoneExporter that goes by Plan.Price, getDashboardAnalytics: the
\* minutes sinceTime lies before now
sinceTimeByPrice(price) ==
  IF price > 200 THEN 30
  ELSE IF price = 200 THEN 6 * 60
  ELSE IF price = 20 THEN 24 * 60
  ELSE 10080

\* the ZoneExporter that goes by Plan.Price, getDNSAnalytics: dimensions
dimensionsByPrice(price) ==
  IF price >= 200
  THEN <<"queryName", "responseCode", "origin", "tcp", "ipVersion",
         "coloName", "queryType">>
  ELSE IF price = 20
  THEN <<"queryName", "responseCode", "origin", "tcp", "ipVersion", "coloName">>
  ELSE <<"queryName", "responseCode", "origin", "tcp", "ipVersion">>

\* the plans a zone can come with
LegacyIDs == {"free", "pro", "business", "enterprise", ""}
Plans == [Price : 0..MaxPrice, LegacyID : LegacyIDs]

\* the parameters the two queries of a zone of this plan are made with
PolicyCall ==
  \E plan \in Plans :
    /\ lastCall' = [op |-> "policy", arg |-> plan,
                    sinceTime |-> sinceTime(plan.LegacyID),
                    dimensions |-> dnsDimensions(plan.LegacyID),
                    sinceTimeByPrice |-> sinceTimeByPrice(plan.Price),
                    dimensionsByPrice |-> dimensionsByPrice(plan.Price)]
    /\ UNCHANGED <<pops, popsByIDMap>>
    /\ UNCHANGED procVars

NextPolicy == PolicyCall

SpecPolicy == InitPops /\ [][NextPolicy]_vars

----------------------------------------------------------------------------
(* zone_exporter.go: Collect *)

\* prometheus.MustNewConstMetric panics when the number of label values is
\* not the number of variable labels of the descriptor
LabelsFit(zone, d, labels) ==
  Len(labels) = Len(NewDesc(zone, d).variableLabels)

\* the metric MustNewConstMetric returns; processing times are sent as 0
MustNewConstMetric(zone, d, valueType, value, labels) ==
  [desc |-> d, zone |-> zone.ID, valueType |-> valueType,
   value |-> value, labels |-> labels]

\* the sum of the bags f[x], x in S
RECURSIVE BagSum(_, _)
BagSum(f, S) ==
  IF S = {} THEN EmptyBag
  ELSE LET x == CHOOSE y \in S : TRUE
       IN  f[x] (+) BagSum(f, S \ {x})

\* the labels a dashboard entry starts from
EntryLabels(zone, entry) ==
  IF zone.LegacyID = "enterprise"
  THEN LET pop == getPop(entry.ColocationID)
       IN  <<pop.Code, pop.Name, pop.Region>>
  ELSE <<>>

\* the loop body of collectDashboardAnalytics panics on this entry
DashboardEntryPanics(zone, entry) ==
  \/ Len(entry.Timeseries) = 0
  \/ \E d \in DOMAIN ScalarDescs :
       ~LabelsFit(zone, d, EntryLabels(zone, entry))
  \/ \E d \in DOMAIN MapDescs :
       /\ DOMAIN entry.Timeseries[Len(entry.Timeseries)].maps[d] /= {}
       /\ ~LabelsFit(zone, d, Append(EntryLabels(zone, entry), <<>>))

\* the loop body sending the request counts as counters
DashboardEntryMetricsCounting(zone, entry) ==
  LET labels == EntryLabels(zone, entry)
      latestEntry == entry.Timeseries[Len(entry.Timeseries)]
      kind(d) == IF NewDesc(zone, d).fqName[2] = "requests"
                 THEN "counter" ELSE "gauge"
      scalars == {MustNewConstMetric(zone, d, kind(d),
                                     latestEntry.scalars[d], labels) :
                    d \in DOMAIN ScalarDescs}
      mapped == UNION {{MustNewConstMetric(zone, d, kind(d),
                                           latestEntry.maps[d][k],
                                           Append(labels, k)) :
                          k \in DOMAIN latestEntry.maps[d]} :
                       d \in DOMAIN MapDescs}
  IN  SetToBag(scalars \cup mapped)

\* the loop body sending the totals of the entry
DashboardEntryMetricsOfTotals(zone, entry) ==
  LET labels == EntryLabels(zone, entry)
      scalars == {MustNewConstMetric(zone, d, "gauge",
                                     entry.Totals.scalars[d], labels) :
                    d \in DOMAIN ScalarDescs}
      mapped == UNION {{MustNewConstMetric(zone, d, "gauge",
                                           entry.Totals.maps[d][k],
                                           Append(labels, k)) :
                          k \in DOMAIN entry.Totals.maps[d]} :
                       d \in DOMAIN MapDescs}
  IN  SetToBag(scalars \cup mapped)

\* the metrics the loop body sends for one entry of data
DashboardEntryMetrics(zone, entry) ==
  LET labels == EntryLabels(zone, entry)
      latestEntry == entry.Timeseries[Len(entry.Timeseries)]
      scalars == {MustNewConstMetric(zone, d, "gauge",
                                     latestEntry.scalars[d], labels) :
                    d \in DOMAIN ScalarDescs}
      mapped == UNION {{MustNewConstMetric(zone, d, "gauge",
                                           latestEntry.maps[d][k],
                                           Append(labels, k)) :
                          k \in DOMAIN latestEntry.maps[d]} :
                       d \in DOMAIN MapDescs}
  IN  SetToBag(scalars \cup mapped)

DashboardPanics(zone, data) ==
  \E i \in 1..Len(data) : DashboardEntryPanics(zone, data[i])

\* the metrics collectDashboardAnalytics sends for a reply without error,
\* the component processing time last
DashboardMetrics(zone, data) ==
  LET perEntry == [i \in 1..Len(data) |-> DashboardEntryMetrics(zone, data[i])]
      component == MustNewConstMetric(zone, "componentProcessingTime", "gauge",
                                      0, << <<"dashboard_analytics">> >>)
  IN  BagSum(perEntry, 1..Len(data)) (+) SetToBag({component})

WithPop(zone) ==
  LET dims == dnsDimensions(zone.LegacyID)
  IN  dims[Len(dims)] = "coloName"

\* RowLabels keeping the location code in front of the resolved labels
RowLabelsWithCode(zone, row) ==
  IF WithPop(zone)
  THEN LET n == Len(row.Dimensions)
           pop == getPop(row.Dimensions[n])
       IN  row.Dimensions \o <<pop.Code, pop.Name, pop.Region>>
  ELSE row.Dimensions

\* the labels of the metrics of a DNS row
RowLabels(zone, row) ==
  IF WithPop(zone)
  THEN LET n == Len(row.Dimensions)
           pop == getPop(row.Dimensions[n])
       IN  SubSeq(row.Dimensions, 1, n - 1) \o <<pop.Code, pop.Name, pop.Region>>
  ELSE row.Dimensions

\* the loop body of collectDNSAnalytics panics on this row
DNSRowPanics(zone, row) ==
  \/ Len(row.Metrics) < 3
  \/ \E m \in 1..3 : Len(row.Metrics[m]) = 0
  \/ WithPop(zone) /\ Len(row.Dimensions) = 0
  \/ ~LabelsFit(zone, "dnsQueryTotal", RowLabels(zone, row))

\* the metrics the loop body sends for one row
DNSRowMetrics(zone, row) ==
  LET last(m) == row.Metrics[m][Len(row.Metrics[m])]
      labels == RowLabels(zone, row)
  IN  SetToBag({MustNewConstMetric(zone, "dnsQueryTotal", "gauge",
                                   last(1), labels),
                MustNewConstMetric(zone, "uncachedDNSQueries", "gauge",
                                   last(2), labels),
                MustNewConstMetric(zone, "staleDNSQueries", "gauge",
                                   last(3), labels)})

DNSPanics(zone, data) ==
  \E i \in 1..Len(data.Rows) : DNSRowPanics(zone, data.Rows[i])

\* the metrics collectDNSAnalytics sends for a reply without error, the
\* component processing time last
DNSMetrics(zone, data) ==
  LET perRow == [i \in 1..Len(data.Rows) |-> DNSRowMetrics(zone, data.Rows[i])]
      component == MustNewConstMetric(zone, "componentProcessingTime", "gauge",
                                      0, << <<"dns_analytics">> >>)
  IN  BagSum(perRow, 1..Len(data.Rows)) (+) SetToBag({component})

OverallMetric(zone) ==
  MustNewConstMetric(zone, "overallProcessingTime", "gauge", 0, <<>>)

----------------------------------------------------------------------------
(* The Cloudflare API as the collectors see it *)

ZoneCatalog ==
  {[ID |-> "z1", Name |-> "example.com", LegacyID |-> "free"],
   [ID |-> "z2", Name |-> "example.org", LegacyID |-> "pro"],
   [ID |-> "z3", Name |-> "example.net", LegacyID |-> "business"],
   [ID |-> "z4", Name |-> "example.io", LegacyID |-> "enterprise"]}

ZoneLists == {zs \in SUBSET ZoneCatalog : Cardinality(zs) <= MaxZones}

NoMaps == [d \in DOMAIN MapDescs |-> <<>>]

Quiet == [scalars |-> [d \in DOMAIN ScalarDescs |-> 0], maps |-> NoMaps]

Busy ==
  [scalars |-> [d \in DOMAIN ScalarDescs |->
                  IF d = "allRequests" THEN 1000
                  ELSE IF d = "cachedRequests" THEN 400
                  ELSE IF d = "totalBandwidth" THEN 52
                  ELSE 0],
   maps |-> [NoMaps EXCEPT
               !.byStatusRequests = (<<"200">> :> 900) @@ (<<"404">> :> 100),
               !.byCountryBandwidth = (<<"US">> :> 52)]]

Ok(data) == [st |-> "ok", data |-> data]
Err == [st |-> "err"]
None == [st |-> "none"]

\* what ZoneAnalyticsByColocation (enterprise) or ZoneAnalyticsDashboard can
\* give for a zone; Totals is the sum of the Timeseries
DashboardReplies(zone) ==
  IF zone.LegacyID = "enterprise"
  THEN {Err,
        Ok(<<>>),
        Ok(<<[ColocationID |-> SJC, Totals |-> Busy,
              Timeseries |-> <<Quiet, Busy>>],
             [ColocationID |-> <<"PIG", "-", "SJC">>, Totals |-> Busy,
              Timeseries |-> <<Busy, Quiet>>]>>),
        Ok(<<[ColocationID |-> <<"PIG">>, Totals |-> Busy,
              Timeseries |-> <<Quiet, Busy>>],
             [ColocationID |-> <<"PIG", "-", "SJC">>, Totals |-> Busy,
              Timeseries |-> <<Quiet, Busy>>]>>),
        Ok(<<[ColocationID |-> AMS, Totals |-> Quiet, Timeseries |-> <<>>]>>)}
  ELSE {Err,
        Ok(<<[ColocationID |-> <<>>, Totals |-> Busy,
              Timeseries |-> <<Quiet, Busy>>]>>),
        Ok(<<[ColocationID |-> <<>>, Totals |-> Busy,
              Timeseries |-> <<Busy, Quiet>>]>>),
        Ok(<<[ColocationID |-> <<>>, Totals |-> Quiet, Timeseries |-> <<>>]>>)}

BaseDimensions(name) ==
  <<name, <<"NOERROR">>, <<"0">>, <<"0">>, <<"4">>>>

\* a row with one value for each requested dimension
Row(zone, name, colo) ==
  [Metrics |-> <<<<5, 7>>, <<2>>, <<0>>>>,
   Dimensions |->
     IF zone.LegacyID \in {"enterprise", "business"}
     THEN BaseDimensions(name) \o <<<<"1">>, <<"A">>, colo>>
     ELSE IF zone.LegacyID = "pro"
     THEN BaseDimensions(name) \o <<colo>>
     ELSE BaseDimensions(name)]

\* what ZoneDNSAnalyticsByTime can give for a zone
DNSReplies(zone) ==
  {Err,
   Ok([Rows |-> <<>>]),
   Ok([Rows |-> <<Row(zone, <<"example.com">>, SJC_PIG),
                  Row(zone, <<"www.example.com">>, <<"SJC", "-", "SJC">>)>>]),
   Ok([Rows |-> <<[Metrics |-> <<<<5>>, <<>>, <<0>>>>,
                   Dimensions |-> BaseDimensions(<<"example.com">>)]>>]),
   Ok([Rows |-> <<[Metrics |-> <<<<5>>, <<2>>, <<0>>>>,
                   Dimensions |-> BaseDimensions(<<"example.com">>)]>>])}

----------------------------------------------------------------------------
(* cloudflare_exporter.go: main, and one scrape of the registry *)

IDs(zs) == {z.ID : z \in zs}

\* main going on to serve with an empty listing
MainWithoutZones ==
  /\ proc = "starting"
  /\ \E listing \in {Err} \cup {Ok(zs) : zs \in ZoneLists} :
       /\ listed' = listing
       /\ IF listing.st = "err"
          THEN /\ proc' = "exited"
               /\ UNCHANGED <<zones, zonePc, dashRes, dnsRes>>
          ELSE /\ proc' = IF MustRegisterPanics(listing.data)
                          THEN "exited" ELSE "serving"
               /\ zones' = listing.data
               /\ zonePc' = [id \in IDs(listing.data) |-> "idle"]
               /\ dashRes' = [id \in IDs(listing.data) |-> None]
               /\ dnsRes' = [id \in IDs(listing.data) |-> None]
  /\ UNCHANGED <<pops, popsByIDMap, lastCall, colos, scrape, statusPc,
                 statusRes, ch, inflight>>

\* main up to http.ListenAndServe: log.Fatal on a listing error or an empty
\* listing; then a ZoneExporter is built for every zone of the listing, and
\* MustRegister panics on clashing descriptors
Main ==
  /\ proc = "starting"
  /\ \E listing \in {Err} \cup {Ok(zs) : zs \in ZoneLists} :
       /\ listed' = listing
       /\ IF listing.st = "err" \/ listing.data = {}
          THEN /\ proc' = "exited"
               /\ UNCHANGED <<zones, zonePc, dashRes, dnsRes>>
          ELSE /\ proc' = IF MustRegisterPanics(listing.data)
                          THEN "exited" ELSE "serving"
               /\ zones' = listing.data
               /\ zonePc' = [id \in IDs(listing.data) |-> "idle"]
               /\ dashRes' = [id \in IDs(listing.data) |-> None]
               /\ dnsRes' = [id \in IDs(listing.data) |-> None]
  /\ UNCHANGED <<pops, popsByIDMap, lastCall, colos, scrape, statusPc,
                 statusRes, ch, inflight>>

\* handler: Gather starts the Collect of every registered collector
ScrapeStart ==
  /\ proc = "serving"
  /\ scrape = "idle"
  /\ scrape' = "running"
  /\ statusPc' = "collect"
  /\ statusRes' = None
  /\ zonePc' = [id \in IDs(zones) |-> "dashboard"]
  /\ dashRes' = [id \in IDs(zones) |-> None]
  /\ dnsRes' = [id \in IDs(zones) |-> None]
  /\ ch' = EmptyBag
  /\ UNCHANGED <<pops, popsByIDMap, lastCall, proc, zones, colos>>
  /\ UNCHANGED <<listed, inflight>>

\* collectDashboardAnalytics with log.Fatalf in place of log.Errorf
collectDashboardAnalyticsFatal(zone) ==
  /\ proc = "serving"
  /\ zonePc[zone.ID] = "dashboard"
  /\ \E reply \in DashboardReplies(zone) :
       /\ dashRes' = [dashRes EXCEPT ![zone.ID] = reply]
       /\ IF reply.st = "err" \/ DashboardPanics(zone, reply.data)
          THEN /\ proc' = "exited"
               /\ UNCHANGED <<zonePc, ch>>
          ELSE /\ zonePc' = [zonePc EXCEPT ![zone.ID] = "dns"]
               /\ ch' = ch (+) DashboardMetrics(zone, reply.data)
               /\ UNCHANGED proc
  /\ UNCHANGED <<pops, popsByIDMap, lastCall, zones, colos, scrape, statusPc,
                 statusRes, dnsRes>>
  /\ UNCHANGED <<listed, inflight>>

\* collectDashboardAnalytics sending the component processing time on the
\* error path too
collectDashboardAnalyticsTimed(zone) ==
  /\ proc = "serving"
  /\ zonePc[zone.ID] = "dashboard"
  /\ \E reply \in DashboardReplies(zone) :
       /\ dashRes' = [dashRes EXCEPT ![zone.ID] = reply]
       /\ IF reply.st = "err"
          THEN /\ zonePc' = [zonePc EXCEPT ![zone.ID] = "dns"]
               /\ ch' = ch (+) DashboardMetrics(zone, <<>>)
               /\ UNCHANGED proc
          ELSE IF DashboardPanics(zone, reply.data)
          THEN /\ proc' = "exited"
               /\ UNCHANGED <<zonePc, ch>>
          ELSE /\ zonePc' = [zonePc EXCEPT ![zone.ID] = "dns"]
               /\ ch' = ch (+) DashboardMetrics(zone, reply.data)
               /\ UNCHANGED proc
  /\ UNCHANGED <<pops, popsByIDMap, lastCall, zones, colos, scrape, statusPc,
                 statusRes, dnsRes>>
  /\ UNCHANGED <<listed, inflight>>

\* ZoneExporter.Collect up to the return of collectDashboardAnalytics
collectDashboardAnalytics(zone) ==
  /\ proc = "serving"
  /\ zonePc[zone.ID] = "dashboard"
  /\ \E reply \in DashboardReplies(zone) :
       /\ dashRes' = [dashRes EXCEPT ![zone.ID] = reply]
       /\ IF reply.st = "err"
          THEN /\ zonePc' = [zonePc EXCEPT ![zone.ID] = "dns"]
               /\ UNCHANGED <<proc, ch>>
          ELSE IF DashboardPanics(zone, reply.data)
          THEN /\ proc' = "exited"
               /\ UNCHANGED <<zonePc, ch>>
          ELSE /\ zonePc' = [zonePc EXCEPT ![zone.ID] = "dns"]
               /\ ch' = ch (+) DashboardMetrics(zone, reply.data)
               /\ UNCHANGED proc
  /\ UNCHANGED <<pops, popsByIDMap, lastCall, zones, colos, scrape, statusPc,
                 statusRes, dnsRes>>
  /\ UNCHANGED <<listed, inflight>>

\* collectDNSAnalytics whose error return ends Collect as well
collectDNSAnalyticsEndsCollect(zone) ==
  /\ proc = "serving"
  /\ zonePc[zone.ID] = "dns"
  /\ \E reply \in DNSReplies(zone) :
       /\ dnsRes' = [dnsRes EXCEPT ![zone.ID] = reply]
       /\ IF reply.st = "err"
          THEN /\ zonePc' = [zonePc EXCEPT ![zone.ID] = "done"]
               /\ UNCHANGED <<proc, ch>>
          ELSE IF DNSPanics(zone, reply.data)
          THEN /\ proc' = "exited"
               /\ UNCHANGED <<zonePc, ch>>
          ELSE /\ zonePc' = [zonePc EXCEPT ![zone.ID] = "done"]
               /\ ch' = ch (+) DNSMetrics(zone, reply.data)
                           (+) SetToBag({OverallMetric(zone)})
               /\ UNCHANGED proc
  /\ UNCHANGED <<pops, popsByIDMap, lastCall, zones, colos, scrape, statusPc,
                 statusRes, dashRes>>
  /\ UNCHANGED <<listed, inflight>>

\* ZoneExporter.Collect from the call of collectDNSAnalytics to its end
collectDNSAnalytics(zone) ==
  /\ proc = "serving"
  /\ zonePc[zone.ID] = "dns"
  /\ \E reply \in DNSReplies(zone) :
       /\ dnsRes' = [dnsRes EXCEPT ![zone.ID] = reply]
       /\ IF reply.st = "err"
          THEN /\ zonePc' = [zonePc EXCEPT ![zone.ID] = "done"]
               /\ ch' = ch (+) SetToBag({OverallMetric(zone)})
               /\ UNCHANGED proc
          ELSE IF DNSPanics(zone, reply.data)
          THEN /\ proc' = "exited"
               /\ UNCHANGED <<zonePc, ch>>
          ELSE /\ zonePc' = [zonePc EXCEPT ![zone.ID] = "done"]
               /\ ch' = ch (+) DNSMetrics(zone, reply.data)
                           (+) SetToBag({OverallMetric(zone)})
               /\ UNCHANGED proc
  /\ UNCHANGED <<pops, popsByIDMap, lastCall, zones, colos, scrape, statusPc,
                 statusRes, dashRes>>
  /\ UNCHANGED <<listed, inflight>>

\* Gather returns and the handler writes the response
ScrapeEnd ==
  /\ proc = "serving"
  /\ scrape = "running"
  /\ statusPc = "done"
  /\ \A id \in IDs(zones) : zonePc[id] = "done"
  /\ scrape' = "idle"
  /\ UNCHANGED <<pops, popsByIDMap, lastCall, proc, zones, colos, statusPc,
                 statusRes, zonePc, dashRes, dnsRes, ch>>
  /\ UNCHANGED <<listed, inflight>>

----------------------------------------------------------------------------
(* status_exporter.go *)

\* coloIDRegex, `(.*) - \((.*)\)`, on a name whose tokens " - (" and ")"
\* stand for these literals: both groups are greedy, so the last " - (" that
\* has a ")" behind it and the last ")" delimit the groups
OpenAt(name) ==
  {i \in 1..Len(name) :
     name[i] = " - (" /\ \E j \in (i + 1)..Len(name) : name[j] = ")"}

Max(S) == CHOOSE i \in S : \A j \in S : j <= i

\* FindStringSubmatch: <<>> without a match, else <<match, group 1, group 2>>
FindStringSubmatch(name) ==
  IF OpenAt(name) = {} THEN <<>>
  ELSE LET i == Max(OpenAt(name))
           j == Max({k \in (i + 1)..Len(name) : name[k] = ")"})
       IN  <<SubSeq(name, 1, j), SubSeq(name, 1, i - 1),
             SubSeq(name, i + 1, j - 1)>>

\* strings.Contains(name, "Cloudflare"), "Cloudflare" being a token
ContainsCloudflare(name) == \E i \in 1..Len(name) : name[i] = "Cloudflare"

getStatusFloat(status) ==
  IF status = <<"none">> \/ status = <<"operational">> THEN 1 ELSE 0

StatusMetric(d, value, labels) ==
  [desc |-> d, zone |-> "", valueType |-> "gauge", value |-> value,
   labels |-> labels]

\* groupMap after the first loop over the first n components
RECURSIVE GroupMap(_, _)
GroupMap(components, n) ==
  IF n = 0 THEN <<>>
  ELSE LET c == components[n]
           before == GroupMap(components, n - 1)
       IN  IF c.Group
           THEN [id \in DOMAIN before \cup {c.ID} |->
                   IF id = c.ID THEN c.Name ELSE before[id]]
           ELSE before

\* groupMap[id], the empty string for a missing key
RegionName(groupMap, id) ==
  IF id \in DOMAIN groupMap THEN groupMap[id] ELSE <<>>

\* e.colos after the second loop over the first n components
RECURSIVE ColosAfter(_, _, _, _)
ColosAfter(before, components, groupMap, n) ==
  IF n = 0 THEN before
  ELSE LET c == components[n]
           sofar == ColosAfter(before, components, groupMap, n - 1)
           matches == FindStringSubmatch(c.Name)
       IN  IF ~c.Group /\ Len(matches) > 0
           THEN [code \in DOMAIN sofar \cup {matches[3]} |->
                   IF code = matches[3]
                   THEN [Name |-> matches[2], Code |-> matches[3],
                         Region |-> RegionName(groupMap, c.GroupID)]
                   ELSE sofar[code]]
           ELSE sofar

\* ComponentMetrics with a region status for Cloudflare's own groups too
ComponentMetricsOfEveryGroup(components, groupMap, i) ==
  LET c == components[i]
      matches == FindStringSubmatch(c.Name)
  IN  IF c.Group
      THEN SetToBag({StatusMetric("regionStatus", getStatusFloat(c.Status),
                                  <<c.Status, c.Name>>)})
      ELSE IF Len(matches) > 0
      THEN SetToBag({StatusMetric("popStatus", getStatusFloat(c.Status),
                                  <<c.Status, matches[2], matches[3],
                                    RegionName(groupMap, c.GroupID)>>)})
      ELSE SetToBag({StatusMetric("serviceStatus", getStatusFloat(c.Status),
                                  <<c.Status, c.Name>>)})

\* the metric Collect sends for component i, if any
ComponentMetrics(components, groupMap, i) ==
  LET c == components[i]
      matches == FindStringSubmatch(c.Name)
  IN  IF c.Group
      THEN IF ContainsCloudflare(c.Name) THEN EmptyBag
           ELSE SetToBag({StatusMetric("regionStatus", getStatusFloat(c.Status),
                                       <<c.Status, c.Name>>)})
      ELSE IF Len(matches) > 0
      THEN SetToBag({StatusMetric("popStatus", getStatusFloat(c.Status),
                                  <<c.Status, matches[2], matches[3],
                                    RegionName(groupMap, c.GroupID)>>)})
      ELSE SetToBag({StatusMetric("serviceStatus", getStatusFloat(c.Status),
                                  <<c.Status, c.Name>>)})

\* StatusMetrics with one loop, which knows the groups met so far only
StatusMetricsOneLoop(summary) ==
  LET components == summary.Components
      groupMap == GroupMap(components, Len(components))
      perComponent == [i \in 1..Len(components) |->
                         ComponentMetrics(components,
                                          GroupMap(components, i), i)]
  IN  BagSum(perComponent, 1..Len(components))
        (+) SetToBag({StatusMetric("overallStatus",
                                   getStatusFloat(summary.Status.Indicator),
                                   <<summary.Status.Indicator,
                                     summary.Status.Description>>)})

\* everything Collect sends for a summary
StatusMetrics(summary) ==
  LET components == summary.Components
      groupMap == GroupMap(components, Len(components))
      perComponent == [i \in 1..Len(components) |->
                         ComponentMetrics(components, groupMap, i)]
  IN  BagSum(perComponent, 1..Len(components))
        (+) SetToBag({StatusMetric("overallStatus",
                                   getStatusFloat(summary.Status.Indicator),
                                   <<summary.Status.Indicator,
                                     summary.Status.Description>>)})

Component(group, id, groupID, name, status) ==
  [Group |-> group, ID |-> id, GroupID |-> groupID, Name |-> name,
   Status |-> status]

\* summaries cloudflarestatus.com can serve
Summaries ==
  {[Status |-> [Indicator |-> <<"none">>,
                Description |-> <<"All Systems Operational">>],
    Components |->
      <<Component(TRUE, "g0", "", <<"Cloudflare", " Sites and Services">>,
                  <<"operational">>),
        Component(FALSE, "c1", "g0", <<"CDN/Cache">>, <<"operational">>),
        Component(TRUE, "g1", "", <<"Europe">>, <<"operational">>),
        Component(FALSE, "c2", "g1",
                  <<"Amsterdam, Netherlands", " - (", "AMS", ")">>,
                  <<"operational">>)>>],
   [Status |-> [Indicator |-> <<"minor">>,
                Description |-> <<"Partially Degraded Service">>],
    Components |->
      <<Component(FALSE, "c2", "g2",
                  <<"Amsterdam", " - (", "AMS", ")">>,
                  <<"partial_outage">>),
        Component(FALSE, "c3", "g2",
                  <<"Berlin", " - (", "TXL", ")", " - (", "BER", ")">>,
                  <<"operational">>),
        Component(TRUE, "g2", "", <<"EMEA">>, <<"partial_outage">>)>>]}

\* summaryRequest: an error of the request, the read or the parse, or a summary
SummaryReplies == {Err} \cup {Ok(s) : s \in Summaries}

\* StatusExporter.Collect starting from an empty e.colos on every call and
\* returning on an error
StatusExporterCollectReset ==
  /\ proc = "serving"
  /\ statusPc = "collect"
  /\ \E reply \in SummaryReplies :
       /\ statusRes' = reply
       /\ IF reply.st = "err"
          THEN /\ colos' = <<>>
               /\ statusPc' = "done"
               /\ UNCHANGED <<proc, ch>>
          ELSE LET components == reply.data.Components
                   groupMap == GroupMap(components, Len(components))
               IN  /\ ch' = ch (+) StatusMetrics(reply.data)
                   /\ colos' = ColosAfter(<<>>, components, groupMap,
                                          Len(components))
                   /\ statusPc' = "done"
                   /\ UNCHANGED proc
  /\ UNCHANGED <<pops, popsByIDMap, lastCall, zones, scrape, zonePc, dashRes,
                 dnsRes>>
  /\ UNCHANGED <<listed, inflight>>

\* StatusExporter.Collect
StatusExporterCollect ==
  /\ proc = "serving"
  /\ statusPc = "collect"
  /\ \E reply \in SummaryReplies :
       /\ statusRes' = reply
       /\ IF reply.st = "err"
          THEN /\ proc' = "exited"
               /\ UNCHANGED <<colos, ch, statusPc>>
          ELSE LET components == reply.data.Components
                   groupMap == GroupMap(components, Len(components))
               IN  /\ ch' = ch (+) StatusMetrics(reply.data)
                   /\ colos' = ColosAfter(colos, components, groupMap,
                                          Len(components))
                   /\ statusPc' = "done"
                   /\ UNCHANGED proc
  /\ UNCHANGED <<pops, popsByIDMap, lastCall, zones, scrape, zonePc, dashRes,
                 dnsRes>>
  /\ UNCHANGED <<listed, inflight>>

Init == InitPops

Next ==
  \/ Main
  \/ ScrapeStart
  \/ StatusExporterCollect
  \/ \E zone \in zones : collectDashboardAnalytics(zone)
  \/ \E zone \in zones : collectDNSAnalytics(zone)
  \/ ScrapeEnd

Spec == Init /\ [][Next]_vars

----------------------------------------------------------------------------
(* Requests served at the same time: every request is served in a goroutine *)
(* of its own, and all of them call Collect on the one StatusExporter      *)

InFlight == 1..MaxInFlight

raceFrame == <<pops, popsByIDMap, lastCall, zones, scrape, statusPc,
               statusRes, zonePc, dashRes, dnsRes, ch, listed>>

\* the metrics of the first loop of Collect: one for every group that is not
\* Cloudflare's own
GroupMetrics(components) ==
  LET groupMap == GroupMap(components, Len(components))
      perGroup == [i \in 1..Len(components) |->
                     IF components[i].Group
                     THEN ComponentMetrics(components, groupMap, i)
                     ELSE EmptyBag]
  IN  BagSum(perGroup, 1..Len(components))

\* handler: request h arrives and Gather calls StatusExporter.Collect
handler(h) ==
  /\ proc = "serving"
  /\ inflight[h].pc = "idle"
  /\ inflight' = [inflight EXCEPT ![h] = [pc |-> "request"]]
  /\ UNCHANGED <<proc, colos>>
  /\ UNCHANGED raceFrame

\* Collect of request h: summaryRequest returns, and the first loop runs
CollectSummaryRequest(h) ==
  /\ proc = "serving"
  /\ inflight[h].pc = "request"
  /\ \E reply \in SummaryReplies :
       IF reply.st = "err"
       THEN /\ proc' = "exited"
            /\ UNCHANGED inflight
       ELSE /\ inflight' = [inflight EXCEPT ![h] =
                              [pc |-> "loop", summary |-> reply.data, i |-> 1,
                               sent |-> GroupMetrics(reply.data.Components)]]
            /\ UNCHANGED proc
  /\ UNCHANGED colos
  /\ UNCHANGED raceFrame

\* Collect of request h: the second loop takes its next component, sends
\* the metric of a leaf and, for a location, starts the assignment to
\* e.colos; after the last component the overall status is sent and Collect
\* returns
CollectComponent(h) ==
  /\ proc = "serving"
  /\ inflight[h].pc = "loop"
  /\ LET st == inflight[h]
         components == st.summary.Components
         groupMap == GroupMap(components, Len(components))
     IN  IF st.i > Len(components)
         THEN inflight' = [inflight EXCEPT ![h] = [pc |-> "idle"]]
         ELSE IF components[st.i].Group
         THEN inflight' = [inflight EXCEPT ![h].i = st.i + 1]
         ELSE inflight' = [inflight EXCEPT ![h] =
                [st EXCEPT
                   !.sent = st.sent (+) ComponentMetrics(components, groupMap, st.i),
                   !.pc = IF Len(FindStringSubmatch(components[st.i].Name)) > 0
                          THEN "write" ELSE "loop",
                   !.i = IF Len(FindStringSubmatch(components[st.i].Name)) > 0
                         THEN st.i ELSE st.i + 1]]
  /\ UNCHANGED <<proc, colos>>
  /\ UNCHANGED raceFrame

\* Collect of request h: the assignment e.colos[coloCode] = colo{...} ends.
\* While another request is inside its own assignment the two map writes are
\* a data race: the runtime either ends the process ("concurrent map
\* writes") or lets the write through
CollectColosAssign(h) ==
  /\ proc = "serving"
  /\ inflight[h].pc = "write"
  /\ LET st == inflight[h]
         components == st.summary.Components
         groupMap == GroupMap(components, Len(components))
         c == components[st.i]
         matches == FindStringSubmatch(c.Name)
         written == [code \in DOMAIN colos \cup {matches[3]} |->
                       IF code = matches[3]
                       THEN [Name |-> matches[2], Code |-> matches[3],
                             Region |-> RegionName(groupMap, c.GroupID)]
                       ELSE colos[code]]
         through == /\ colos' = written
                    /\ inflight' = [inflight EXCEPT ![h].pc = "loop",
                                                    ![h].i = st.i + 1]
                    /\ UNCHANGED proc
         thrown == /\ proc' = "exited"
                   /\ UNCHANGED <<colos, inflight>>
     IN  IF \E g \in InFlight \ {h} : inflight[g].pc = "write"
         THEN through \/ thrown
         ELSE through
  /\ UNCHANGED raceFrame

NextRace ==
  \/ Main
  \/ \E h \in InFlight : handler(h)
  \/ \E h \in InFlight : CollectSummaryRequest(h)
  \/ \E h \in InFlight : CollectComponent(h)
  \/ \E h \in InFlight : CollectColosAssign(h)

SpecRace == Init /\ [][NextRace]_vars

----------------------------------------------------------------------------
(* Properties of the registry *)

IsGetPop == lastCall.op = "getPop"
IsAddPop == lastCall.op = "addPop"
Present(c) == c \in DOMAIN popsByIDMap
HasSep(s) == \E i \in 1..Len(s) : s[i] = "-"

\* the part of a code in front of its first "-", found from the code's
\* decompositions x \o <<"-">> \o y
Stem(c) ==
  IF HasSep(c)
  THEN CHOOSE x \in {SubSeq(c, 1, n) : n \in 0..Len(c)} :
         /\ ~HasSep(x)
         /\ Len(x) < Len(c)
         /\ c[Len(x) + 1] = "-"
  ELSE c

\* C5: getPop answers every string, the empty one included; the answer is a
\* fallback only when neither the code nor its stripped form is in the
\* registry, and a code that is in the registry gets a built-in or learned
\* entry.
GetPopTotal ==
  IsGetPop =>
    LET c == lastCall.arg
        r == lastCall.res
    IN  /\ DOMAIN r = {"Name", "Code", "Region", "Source"}
        /\ r.Source \in {"built-in", "external", "fallback"}
        /\ r.Source = "fallback" => ~Present(c) /\ ~Present(Stem(c))
        /\ Present(c) => r.Source \in {"built-in", "external"}

GetPopTotalWitness ==
  /\ IsGetPop
  /\ ~Present(lastCall.arg)
  /\ Present(Stem(lastCall.arg))
  /\ lastCall.res.Source = "external"

\* C6: getPop returns the entry of the exact code when there is one, else
\* the entry of the code stripped of what follows its "-" when there is one,
\* and synthesizes a fallback exactly when both lookups miss.
GetPopLookupOrder ==
  IsGetPop =>
    LET c == lastCall.arg
        r == lastCall.res
    IN  /\ Present(c) => r = popsByIDMap[c]
        /\ ~Present(c) /\ Present(Stem(c)) => r = popsByIDMap[Stem(c)]
        /\ (r.Source = "fallback") = (~Present(c) /\ ~Present(Stem(c)))

GetPopLookupOrderWitness ==
  /\ IsGetPop
  /\ Present(lastCall.arg)
  /\ Stem(lastCall.arg) /= lastCall.arg
  /\ Present(Stem(lastCall.arg))
  /\ lastCall.res.Code = lastCall.arg

\* C7 as stated: a fallback entry carries the code that was asked for, the
\* name "Unknown" and the region "Unknown".
FallbackCarriesAskedCode ==
  IsGetPop /\ lastCall.res.Source = "fallback" =>
    /\ lastCall.res.Code = lastCall.arg
    /\ lastCall.res.Name = Unknown
    /\ lastCall.res.Region = Unknown

\* C7: a fallback entry carries the asked code cut at its first "-", or
\* "Unknown" when nothing is left of it, with the name "Unknown" and the
\* region "Unknown".
FallbackCarriesStrippedCode ==
  IsGetPop /\ lastCall.res.Source = "fallback" =>
    /\ lastCall.res.Code =
         IF Stem(lastCall.arg) = <<>> THEN Unknown ELSE Stem(lastCall.arg)
    /\ lastCall.res.Name = Unknown
    /\ lastCall.res.Region = Unknown

FallbackCarriesStrippedCodeWitness ==
  /\ IsGetPop
  /\ lastCall.res.Source = "fallback"
  /\ lastCall.arg = <<"-", "PIG">>
  /\ lastCall.res.Code = Unknown

\* C8 as stated: with "SJC" in the registry, getPop("SJC-PIG") is the entry
\* of "SJC".
SiteVariantIsPrimary ==
  IsGetPop /\ lastCall.arg = SJC_PIG /\ Present(SJC) =>
    lastCall.res = popsByIDMap[SJC]

\* C8: a code X-Y that has no entry of its own resolves to what X resolves
\* to when X has an entry; "SJC-PIG" has a built-in entry of its own and
\* resolves to that one.
SiteVariantWithoutEntryIsPrimary ==
  IsGetPop =>
    LET c == lastCall.arg
    IN  /\ HasSep(c) /\ ~Present(c) /\ Present(Stem(c)) =>
             /\ lastCall.res = getPop(Stem(c))
             /\ lastCall.res.Code = Stem(c)
        /\ c = SJC_PIG =>
             /\ lastCall.res.Code = SJC_PIG
             /\ lastCall.res.Source = "built-in"

SiteVariantWithoutEntryIsPrimaryWitness ==
  /\ IsGetPop
  /\ lastCall.arg = <<"SJC", "-", "SJC">>
  /\ lastCall.res.Code = SJC

EntriesOf(l, c) == {i \in 1..Len(l) : l[i].Code = c}

\* C9: a learn of a code that is present changes nothing; a learn of a code
\* that is absent inserts it as learned with the given name and region and
\* changes no other entry; the listing holds one entry per code throughout.
LearnIsIdempotentUpsert ==
  [][lastCall'.op = "addPop" =>
       LET p == lastCall'.arg
       IN  /\ Present(p.Code) => UNCHANGED regVars
           /\ ~Present(p.Code) =>
                /\ popsByIDMap'[p.Code] =
                     [Name |-> p.Name, Code |-> p.Code, Region |-> p.Region,
                      Source |-> "external"]
                /\ \A c \in DOMAIN popsByIDMap :
                     popsByIDMap'[c] = popsByIDMap[c]
                /\ Len(pops') = Len(pops) + 1
           /\ \A c \in DOMAIN popsByIDMap' :
                Cardinality(EntriesOf(pops', c)) = 1]_vars

LearnIsIdempotentUpsertWitness ==
  /\ IsAddPop
  /\ lastCall.hit
  /\ popsByIDMap[lastCall.arg.Code].Source = "external"
  /\ popsByIDMap[lastCall.arg.Code].Name /= lastCall.arg.Name

IsSortedByName(l) ==
  \A i, j \in 1..Len(l) : i < j => ~StrLess(l[j].Name, l[i].Name)

\* C10: once a learn has inserted a code, the listing is in non-decreasing
\* order of name over all its entries.
ListingSortedAfterInsert ==
  Len(pops) > Len(popsJSON) => IsSortedByName(pops)

ListingSortedAfterInsertWitness ==
  /\ IsAddPop
  /\ ~lastCall.hit
  /\ Len(pops) > Len(popsJSON)
  /\ pops[Len(pops)].Source = "built-in"
  /\ \E i \in 1..(Len(pops) - 1) : pops[i].Name = pops[i + 1].Name

----------------------------------------------------------------------------
(* Properties of a scrape *)

IsDashboardMetric(r) ==
  \/ r.desc \in DashboardDescNames
  \/ r.desc = "componentProcessingTime"
       /\ r.labels = << <<"dashboard_analytics">> >>

IsDNSMetric(r) ==
  \/ r.desc \in DOMAIN DNSDescs
  \/ r.desc = "componentProcessingTime" /\ r.labels = << <<"dns_analytics">> >>

ZonePart(B, id) == [r \in {q \in DOMAIN B : q.zone = id} |-> B[r]]

DashboardPart(B, id) ==
  [r \in {q \in DOMAIN B : q.zone = id /\ IsDashboardMetric(q)} |-> B[r]]

DNSPart(B, id) ==
  [r \in {q \in DOMAIN B : q.zone = id /\ IsDNSMetric(q)} |-> B[r]]

QueryFails(id) ==
  \/ dashRes'[id].st = "err" /\ dashRes[id].st /= "err"
  \/ dnsRes'[id].st = "err" /\ dnsRes[id].st /= "err"

SucceededQueriesSent ==
  \A z \in zones :
    zonePc[z.ID] = "done" =>
      /\ dashRes[z.ID].st = "ok" =>
           DashboardPart(ch, z.ID) = DashboardMetrics(z, dashRes[z.ID].data)
      /\ dnsRes[z.ID].st = "ok" =>
           DNSPart(ch, z.ID) = DNSMetrics(z, dnsRes[z.ID].data)

\* C1: a step in which a query of one zone returns an error leaves the
\* process serving and leaves the progress, the replies and the sent metrics
\* of every other zone as they were; and whenever the collector of a zone
\* has returned, the metrics of each of its queries that succeeded have been
\* sent, whatever the other zones' queries returned.
ZoneFailureIsolated ==
  [][/\ \A z \in zones :
          QueryFails(z.ID) =>
            /\ proc' = "serving"
            /\ \A y \in zones \ {z} :
                 /\ zonePc'[y.ID] = zonePc[y.ID]
                 /\ dashRes'[y.ID] = dashRes[y.ID]
                 /\ dnsRes'[y.ID] = dnsRes[y.ID]
                 /\ ZonePart(ch', y.ID) = ZonePart(ch, y.ID)
     /\ SucceededQueriesSent']_vars

ZoneFailureIsolatedWitness ==
  /\ scrape = "idle"
  /\ \E z, y \in zones :
       /\ z /= y
       /\ dashRes[z.ID].st = "err"
       /\ dnsRes[z.ID].st = "err"
       /\ zonePc[y.ID] = "done"
       /\ dashRes[y.ID].st = "ok"
       /\ dnsRes[y.ID].st = "ok"
       /\ BagCardinality(DashboardPart(ch, y.ID)) > 1
       /\ BagCardinality(DNSPart(ch, y.ID)) > 1

\* C2: for a zone whose collector has returned, both queries were made; a
\* dashboard error leaves no dashboard metric of the zone (no value, no
\* component processing time) and the metrics of a successful DNS query are
\* all there; likewise with the two queries exchanged.
QueryKindsIsolated ==
  \A z \in zones :
    LET id == z.ID
    IN  /\ zonePc[id] \in {"dns", "done"} /\ dashRes[id].st = "err" =>
             DashboardPart(ch, id) = EmptyBag
        /\ zonePc[id] = "done" =>
             /\ dashRes[id].st \in {"ok", "err"}
             /\ dnsRes[id].st \in {"ok", "err"}
             /\ dnsRes[id].st = "err" => DNSPart(ch, id) = EmptyBag
             /\ dashRes[id].st = "err" /\ dnsRes[id].st = "ok" =>
                  DNSPart(ch, id) = DNSMetrics(z, dnsRes[id].data)
             /\ dnsRes[id].st = "err" /\ dashRes[id].st = "ok" =>
                  DashboardPart(ch, id) = DashboardMetrics(z, dashRes[id].data)

QueryKindsIsolatedWitness ==
  \E z \in zones :
    /\ zonePc[z.ID] = "done"
    /\ dashRes[z.ID].st = "err"
    /\ dnsRes[z.ID].st = "ok"
    /\ BagCardinality(DNSPart(ch, z.ID)) > 1
    /\ DashboardPart(ch, z.ID) = EmptyBag

\* C3: after summaryRequest has returned an error the process is still
\* serving.
StatusFailureNonFatal ==
  statusRes.st = "err" => proc = "serving"

\* C4: a step in which summaryRequest returns an error changes neither the
\* listing, nor the lookup map, nor the status collector's map, and getPop
\* answers every code as before.
FailedRefreshKeepsRegistry ==
  [][statusRes'.st = "err" /\ statusRes.st /= "err" =>
       /\ UNCHANGED <<pops, popsByIDMap, colos>>
       /\ \A c \in CodeInputs : getPop(c)' = getPop(c)]_vars

FailedRefreshKeepsRegistryWitness ==
  /\ statusRes.st = "err"
  /\ AMS \in DOMAIN colos
  /\ colos[AMS].Region = <<"EMEA">>

----------------------------------------------------------------------------
(* Properties of the registry under resolve, learn and refresh *)

\* provenance, from the lowest to the highest
SourceRank(src) == IF src = "fallback" THEN 0 ELSE IF src = "external" THEN 1 ELSE 2

\* C11: no step takes an entry out of the lookup map or the listing or
\* replaces the entry of a code by one of lower provenance; no entry of the
\* listing or of the lookup map is a synthesized fallback; and a getPop call,
\* of an unknown code included, leaves the listing and the lookup map as
\* they were.
ResolvedNeverDowngraded ==
  [][/\ \A c \in DOMAIN popsByIDMap :
          /\ c \in DOMAIN popsByIDMap'
          /\ SourceRank(popsByIDMap'[c].Source) >= SourceRank(popsByIDMap[c].Source)
          /\ popsByIDMap[c].Source \in {"built-in", "external"} =>
               popsByIDMap'[c] = popsByIDMap[c]
     /\ \A i \in 1..Len(pops) : \E j \in 1..Len(pops') : pops'[j] = pops[i]
     /\ \A j \in 1..Len(pops') : pops'[j].Source /= "fallback"
     /\ \A c \in DOMAIN popsByIDMap' : popsByIDMap'[c].Source /= "fallback"
     /\ lastCall'.op = "getPop" => UNCHANGED regVars]_vars

ResolvedNeverDowngradedWitness ==
  /\ IsGetPop
  /\ lastCall.res.Source = "fallback"
  /\ ~Present(lastCall.arg)
  /\ \E c \in DOMAIN popsByIDMap : popsByIDMap[c].Source = "external"
  /\ Len(pops) = Len(popsJSON) + MaxLearn

\* C12: after a refresh that succeeded, every code the feed's location
\* components gave and the embedded table does not have is resolved by
\* getPop to a learned entry with the feed's name and region.
RefreshFeedsLearn ==
  statusRes.st = "ok" =>
    \A code \in DOMAIN colos \ DOMAIN initPopsMap :
      getPop(code) = [Name |-> colos[code].Name, Code |-> code,
                      Region |-> colos[code].Region, Source |-> "external"]

\* C13: no refresh changes the name or the region stored for a code that
\* has an entry in the status collector's map.
RefreshIsAdditive ==
  [][\A code \in DOMAIN colos :
       /\ code \in DOMAIN colos'
       /\ colos'[code].Name = colos[code].Name
       /\ colos'[code].Region = colos[code].Region]_vars

----------------------------------------------------------------------------
(* Properties of the query parameters *)

IsPolicy == lastCall.op = "policy"

Hours(n) == n * 60
Days(n) == n * Hours(24)

FreeDimensions == <<"queryName", "responseCode", "origin", "tcp", "ipVersion">>

IsPrefix(a, b) == Len(a) <= Len(b) /\ SubSeq(b, 1, Len(a)) = a

Elements(a) == {a[i] : i \in 1..Len(a)}

\* C14: every plan gets a lookback window: 30 minutes for "enterprise" or a
\* price above 200, 6 hours for "business" or the price 200, 24 hours for
\* "pro" or the price 20, 7 days for every other plan, so the prices 200 and
\* 20 themselves get the Business and the Pro window.
LookbackByTier ==
  IsPolicy =>
    LET id == lastCall.arg.LegacyID
        price == lastCall.arg.Price
    IN  /\ lastCall.sinceTime =
             IF id = "enterprise" THEN 30
             ELSE IF id = "business" THEN Hours(6)
             ELSE IF id = "pro" THEN Hours(24)
             ELSE Days(7)
        /\ lastCall.sinceTimeByPrice =
             IF price > 200 THEN 30
             ELSE IF price = 200 THEN Hours(6)
             ELSE IF price = 20 THEN Hours(24)
             ELSE Days(7)
        /\ price = 200 => lastCall.sinceTimeByPrice = 360
        /\ price = 20 => lastCall.sinceTimeByPrice = 1440

LookbackByTierWitness ==
  /\ IsPolicy
  /\ lastCall.arg = [Price |-> 200, LegacyID |-> "business"]
  /\ lastCall.sinceTime = 360
  /\ lastCall.sinceTimeByPrice = 360

\* C15 as stated: for every plan the DNS dimensions are a strict superset
\* of the Free list and have its five names at positions 0 to 4.
DimensionsStrictlyExtendFree ==
  IsPolicy =>
    /\ IsPrefix(FreeDimensions, lastCall.dimensions)
    /\ Elements(FreeDimensions) \subseteq Elements(lastCall.dimensions)
    /\ Elements(FreeDimensions) /= Elements(lastCall.dimensions)
    /\ IsPrefix(FreeDimensions, lastCall.dimensionsByPrice)
    /\ Elements(FreeDimensions) /= Elements(lastCall.dimensionsByPrice)

\* C15: for every plan the DNS dimensions have the five names of the Free
\* list at positions 0 to 4; they are a strict superset of the Free list
\* for Pro, Business and Enterprise, and the Free list itself for every
\* other plan.
DimensionsExtendFree ==
  IsPolicy =>
    LET id == lastCall.arg.LegacyID
        price == lastCall.arg.Price
    IN  /\ IsPrefix(FreeDimensions, lastCall.dimensions)
        /\ IsPrefix(FreeDimensions, lastCall.dimensionsByPrice)
        /\ (Elements(FreeDimensions) /= Elements(lastCall.dimensions))
             = (id \in {"pro", "business", "enterprise"})
        /\ (Elements(FreeDimensions) /= Elements(lastCall.dimensionsByPrice))
             = (price = 20 \/ price >= 200)
        /\ id \notin {"pro", "business", "enterprise"} =>
             lastCall.dimensions = FreeDimensions

DimensionsExtendFreeWitness ==
  /\ IsPolicy
  /\ lastCall.arg.LegacyID = "enterprise"
  /\ Len(lastCall.dimensions) = 8
  /\ SubSeq(lastCall.dimensions, 1, 5) = FreeDimensions

----------------------------------------------------------------------------
(* Properties of the metrics of a zone *)

ZoneOf(id) == CHOOSE z \in zones : z.ID = id

\* the label keys of a metric of a zone, in the order of its label values
KeysOf(r) == NewDesc(ZoneOf(r.zone), r.desc).variableLabels

FqNameOf(r) == NewDesc(ZoneOf(r.zone), r.desc).fqName

Placeholders == {<<>>, <<"N/A">>}

\* C17: for a zone whose collector has returned, every metric sent for a
\* DNS row of five dimensions has the keys pop_id, pop_name, pop_region and
\* query_type, each with a placeholder as value.
FiveDimensionRowsKeepKeys ==
  \A z \in zones :
    zonePc[z.ID] = "done" /\ dnsRes[z.ID].st = "ok" =>
      \A i \in 1..Len(dnsRes[z.ID].data.Rows) :
        LET row == dnsRes[z.ID].data.Rows[i]
        IN  Len(row.Dimensions) = 5 =>
              \A r \in DOMAIN DNSRowMetrics(z, row) :
                /\ BagIn(r, ch)
                /\ \A key \in {"pop_id", "pop_name", "pop_region", "query_type"} :
                     \E j \in 1..Len(KeysOf(r)) :
                       /\ KeysOf(r)[j] = key
                       /\ r.labels[j] \in Placeholders

\* C18: whatever zones the account has, the descriptors built for them
\* that have one fully-qualified name have one set of label keys, and so
\* have the metrics sent for them.
LabelKeysDeterministic ==
  /\ \A z1, z2 \in zones : \A d1, d2 \in ZoneDescNames :
       NewDesc(z1, d1).fqName = NewDesc(z2, d2).fqName =>
         Elements(NewDesc(z1, d1).variableLabels)
           = Elements(NewDesc(z2, d2).variableLabels)
  /\ \A r1, r2 \in {r \in DOMAIN ch : r.zone /= ""} :
       FqNameOf(r1) = FqNameOf(r2) =>
         /\ Elements(KeysOf(r1)) = Elements(KeysOf(r2))
         /\ Len(r1.labels) = Len(r2.labels)

RequestCounts ==
  {"allRequests", "cachedRequests", "uncachedRequests", "encryptedRequests",
   "unencryptedRequests", "byStatusRequests", "byContentTypeRequests",
   "byCountryRequests", "byIPClassRequests"}

SentOncePerValue(B, id, labs, srcs) ==
  LET n == Len(srcs)
      scalar(i, d) ==
        [desc |-> d, zone |-> id, valueType |-> "gauge",
         value |-> srcs[i].scalars[d], labels |-> labs[i]]
      mapped(p, d) ==
        [desc |-> d, zone |-> id, valueType |-> "gauge",
         value |-> srcs[p[1]].maps[d][p[2]], labels |-> Append(labs[p[1]], p[2])]
      keys(d) == UNION {{<<i, k>> : k \in DOMAIN srcs[i].maps[d]} : i \in 1..n}
      sent(d) == {r \in DOMAIN B : r.zone = id /\ r.desc = d}
  IN  /\ \A d \in DOMAIN ScalarDescs :
           /\ sent(d) = {scalar(i, d) : i \in 1..n}
           /\ \A i \in 1..n :
                CopiesIn(scalar(i, d), B)
                  = Cardinality({j \in 1..n : scalar(j, d) = scalar(i, d)})
      /\ \A d \in DOMAIN MapDescs :
           /\ sent(d) = {mapped(p, d) : p \in keys(d)}
           /\ \A p \in keys(d) :
                CopiesIn(mapped(p, d), B)
                  = Cardinality({q \in keys(d) : mapped(q, d) = mapped(p, d)})

DashboardSent(id) ==
  zonePc[id] \in {"dns", "done"} /\ dashRes[id].st = "ok"

NoTwoRecordsOfOneLabelTuple ==
  \A r1, r2 \in {r \in DOMAIN ch : r.zone /= ""} :
    r1.desc = r2.desc /\ r1.zone = r2.zone /\ r1.labels = r2.labels =>
      r1 = r2 /\ CopiesIn(r1, ch) = 1

----------------------------------------------------------------------------
(* Properties of the process *)

Answered(res, id) == res'[id] /= res[id] /\ res'[id].st = "ok"

\* C22: a step in which a query of a zone is answered without error,
\* whatever the lengths of the lists in the answer, leaves the process
\* serving and takes the collector of the zone on.
MapperNeverRaises ==
  [][\A z \in zones :
       Answered(dashRes, z.ID) \/ Answered(dnsRes, z.ID) =>
         /\ proc' = "serving"
         /\ zonePc'[z.ID] /= zonePc[z.ID]]_vars

\* C23: once api.ListZones has returned an empty listing the process has
\* exited, no collector of a zone exists, no scrape has started or starts,
\* and no metric is sent.
EmptyListingIsFatal ==
  listed.st = "ok" /\ listed.data = {} =>
    /\ proc = "exited"
    /\ zones = {}
    /\ DOMAIN zonePc = {}
    /\ scrape = "idle"
    /\ statusPc = "idle"
    /\ statusRes.st = "none"
    /\ ch = EmptyBag

EmptyListingIsFatalWitness ==
  /\ listed.st = "ok"
  /\ listed.data = {}
  /\ proc = "exited"

\* a step of the collector of zone z that resolves a location code
ResolvesCode(z) ==
  \/ /\ Answered(dashRes, z.ID)
     /\ z.LegacyID = "enterprise"
     /\ Len(dashRes'[z.ID].data) > 0
  \/ /\ Answered(dnsRes, z.ID)
     /\ WithPop(z)
     /\ Len(dnsRes'[z.ID].data.Rows) > 0

\* C24: every step of a zone collector that resolves a location code is
\* taken when StatusExporter.Collect of the same scrape has returned.
RefreshBeforeResolve ==
  [][\A z \in zones : ResolvesCode(z) => statusPc = "done"]_vars

\* C25: no two requests are inside an assignment to e.colos at the same
\* time.
NoOverlappingWrites ==
  \A g, h \in InFlight :
    g /= h => ~(inflight[g].pc = "write" /\ inflight[h].pc = "write")

----------------------------------------------------------------------------
(* Properties of the status metrics *)

StatusDone == statusPc = "done" /\ statusRes.st = "ok"

\* the metrics of descriptor d among the status metrics of B
StatusRecords(B, d) ==
  [r \in {q \in DOMAIN B : q.zone = "" /\ q.desc = d} |-> B[r]]

\* the ways to read name as "<DisplayName> - (<CODE>)"
Readings(name) ==
  {<<SubSeq(name, 1, i - 1), SubSeq(name, i + 1, Len(name) - 1)>> :
     i \in {k \in 1..Len(name) :
              name[k] = " - (" /\ k < Len(name) /\ name[Len(name)] = ")"}}

IsLocation(c) == ~c.Group /\ Readings(c.Name) /= {}

\* the name of the group with this id, wherever it stands in the feed
GroupNames(components, id) ==
  {components[i].Name :
     i \in {k \in 1..Len(components) :
              components[k].Group /\ components[k].ID = id}}

\* C26: after a status collection that succeeded there are as many
\* pop_status metrics as the feed has leaf components named
\* "<DisplayName> - (<CODE>)", and every such component has its own: the
\* labels are its status, that display name, that code and the name of the
\* group with its group id, wherever the group stands in the feed; the value
\* is 1 for "operational" and 0 for any other status.
PopStatusPerLocation ==
  StatusDone =>
    LET components == statusRes.data.Components
        locations == {i \in 1..Len(components) : IsLocation(components[i])}
    IN  /\ BagCardinality(StatusRecords(ch, "popStatus"))
             = Cardinality(locations)
        /\ \A i \in locations :
             LET c == components[i]
             IN  \E reading \in Readings(c.Name) :
                   \E region \in GroupNames(components, c.GroupID) :
                     BagIn([desc |-> "popStatus", zone |-> "",
                            valueType |-> "gauge",
                            value |-> IF c.Status = <<"operational">>
                                      THEN 1 ELSE 0,
                            labels |-> <<c.Status, reading[1], reading[2],
                                         region>>], ch)

PopStatusPerLocationWitness ==
  /\ StatusDone
  /\ \E r \in DOMAIN ch :
       /\ r.desc = "popStatus"
       /\ r.labels = <<<<"partial_outage">>, <<"Amsterdam">>, AMS, <<"EMEA">>>>
       /\ r.value = 0

\* name has " - (" and, somewhere behind it, ")"
MatchesPattern(name) ==
  \E i, j \in 1..Len(name) : i < j /\ name[i] = " - (" /\ name[j] = ")"

\* C27: after a status collection that succeeded, the pop_status metrics
\* are as many as the leaves named like a location, the service_status
\* metrics as many as the other leaves, the region_status metrics as many as
\* the groups whose name does not contain "Cloudflare", and there is one
\* overall status metric; there is no other status metric, and every leaf
\* that is no location has a service_status metric with its name.
EveryComponentClassifiedOnce ==
  StatusDone =>
    LET components == statusRes.data.Components
        all == 1..Len(components)
        locations == {i \in all : /\ ~components[i].Group
                                   /\ MatchesPattern(components[i].Name)}
        services == {i \in all : ~components[i].Group /\ i \notin locations}
        regions == {i \in all : /\ components[i].Group
                                 /\ ~\E k \in 1..Len(components[i].Name) :
                                       components[i].Name[k] = "Cloudflare"}
        count(d) == BagCardinality(StatusRecords(ch, d))
    IN  /\ count("popStatus") = Cardinality(locations)
        /\ count("serviceStatus") = Cardinality(services)
        /\ count("regionStatus") = Cardinality(regions)
        /\ count("overallStatus") = 1
        /\ \A r \in {q \in DOMAIN ch : q.zone = ""} :
             r.desc \in {"popStatus", "serviceStatus", "regionStatus",
                         "overallStatus"}
        /\ \A i \in services :
             \E r \in DOMAIN ch :
               r.desc = "serviceStatus"
                 /\ r.labels = <<components[i].Status, components[i].Name>>
        /\ \A i \in regions :
             \E r \in DOMAIN ch :
               r.desc = "regionStatus"
                 /\ r.labels = <<components[i].Status, components[i].Name>>

EveryComponentClassifiedOnceWitness ==
  /\ StatusDone
  /\ \E i \in 1..Len(statusRes.data.Components) :
       /\ statusRes.data.Components[i].Group
       /\ ContainsCloudflare(statusRes.data.Components[i].Name)
  /\ BagCardinality(StatusRecords(ch, "regionStatus")) = 1
  /\ BagCardinality(StatusRecords(ch, "serviceStatus")) = 1
  /\ BagCardinality(StatusRecords(ch, "popStatus")) = 1

----------------------------------------------------------------------------
(* Properties of a zone collector *)

\* the number of label values the metrics of a descriptor are built with
Arity(plan, d) ==
  IF d \in DOMAIN DNSDescs
  THEN IF plan \in {"business", "enterprise"} THEN 10
       ELSE IF plan = "pro" THEN 8
       ELSE 5
  ELSE (IF plan = "enterprise" THEN 3 ELSE 0)
         + (IF d \in DOMAIN MapDescs THEN 1 ELSE 0)

\* every row has a value for each dimension asked for and a value of each
\* of the three metrics
FullRows(z, data) ==
  \A i \in 1..Len(data.Rows) :
    /\ Len(data.Rows[i].Dimensions) = Len(dnsDimensions(z.LegacyID))
    /\ Len(data.Rows[i].Metrics) = 3
    /\ \A m \in 1..3 : Len(data.Rows[i].Metrics[m]) > 0

FullEntries(data) ==
  \A i \in 1..Len(data) : Len(data[i].Timeseries) > 0

ListingMatchesMap ==
  /\ {pops[i].Code : i \in 1..Len(pops)} = DOMAIN popsByIDMap
  /\ \A i \in 1..Len(pops) :
       /\ popsByIDMap[pops[i].Code].Name = pops[i].Name
       /\ popsByIDMap[pops[i].Code].Region = pops[i].Region
       /\ popsByIDMap[pops[i].Code].Source = pops[i].Source

ListingMatchesMapWitness ==
  /\ IsAddPop
  /\ ~lastCall.hit
  /\ Len(pops) = Len(popsJSON) + MaxLearn
  /\ \E i \in 1..Len(pops) :
       pops[i].Source = "external" /\ popsByIDMap[pops[i].Code] = pops[i]

\* the number of metrics of descriptor d with these label values sent for
\* the zone
Sent(id, d, labels) ==
  BagCardinality([r \in {q \in DOMAIN ch : /\ q.zone = id
                                           /\ q.desc = d
                                           /\ q.labels = labels} |-> ch[r]])

\* C30: the overall processing time of a zone is sent once when its
\* collector has returned and not before; the processing time of a
\* component is sent once when its query succeeded and never when it
\* failed; the DNS query is made after the dashboard query.
ProcessingTimesSent ==
  \A z \in zones :
    LET id == z.ID
        overall == Sent(id, "overallProcessingTime", <<>>)
        dashboard == Sent(id, "componentProcessingTime",
                          << <<"dashboard_analytics">> >>)
        dns == Sent(id, "componentProcessingTime", << <<"dns_analytics">> >>)
    IN  /\ overall = IF zonePc[id] = "done" THEN 1 ELSE 0
        /\ zonePc[id] = "done" =>
             dashRes[id].st /= "none" /\ dnsRes[id].st /= "none"
        /\ dashboard =
             IF zonePc[id] \in {"dns", "done"} /\ dashRes[id].st = "ok"
             THEN 1 ELSE 0
        /\ dns = IF zonePc[id] = "done" /\ dnsRes[id].st = "ok" THEN 1 ELSE 0
        /\ dnsRes[id].st /= "none" =>
             dashRes[id].st /= "none" /\ zonePc[id] \in {"dns", "done"}

ProcessingTimesSentWitness ==
  \E z \in zones :
    /\ zonePc[z.ID] = "done"
    /\ dashRes[z.ID].st = "err"
    /\ dnsRes[z.ID].st = "err"
    /\ Sent(z.ID, "overallProcessingTime", <<>>) = 1
    /\ BagCardinality(ZonePart(ch, z.ID)) = 1

====
